---- MODULE Spec2Model ----
(***************************************************************************)
(* The service layer of the ToDoList application (src/app/services.py)     *)
(* over the repository contract (src/app/repositories.py,                  *)
(* src/app/sqlalchemy_repositories.py) and the mapped tables               *)
(* (src/app/models.py).                                                    *)
(*                                                                         *)
(* One action is one service call run in its own unit of work              *)
(* (src/app/database.py get_db_session: commit on return, rollback on any  *)
(* exception).  The persisted rows are the state.  In SpecRace a create is *)
(* two actions, its validation reads and its write, so that the calls of   *)
(* two callers interleave; in SpecUnitOfWork the repository write of a     *)
(* call may raise.                                                         *)
(*                                                                         *)
(* Optional values are sequences: None is << >>, a present value v is      *)
(* << v >>.  Timestamps are naturals read from the clock `now`.            *)
(*                                                                         *)
(* The entity constructors Project(name, description) and                  *)
(* Task(title, description, deadline, project_id) are called positionally  *)
(* by the services; what a positional call builds is decided by the        *)
(* declarative Base (app/models/base.py, which is not among the sources).  *)
(* NewProject and NewTask model the constructor as the specification       *)
(* describes it: the entity carries the fields the caller supplied.        *)
(***************************************************************************)
EXTENDS Integers, Sequences, FiniteSets, TLC

(* ---- program constants -------------------------------------------------*)
MAX_PROJECTS == 10
MAX_TASKS_PER_PROJECT == 20

(* ---- bounds of the model ------------------------------------------------*)
\* Spec: the primary keys the storage layer hands out
MaxProjectId == 2
MaxTaskId == 2
\* SpecTime: the clock stops advancing at MaxClock; primary keys handed out
MaxClock == 2
MaxTimeProjectId == 1
MaxTimeTaskId == 2
\* SpecProjectCap: primary keys handed out; the ids update and delete address
MaxCapProjectId == 11
MaxCapTouch == 1
\* SpecTaskCap: primary keys handed out; the tasks the second project receives;
\* the task ids change_task_status addresses
MaxCapTaskId == 21
MaxOtherTasks == 1
MaxCapStatusTask == 1

\* SpecUnitOfWork: primary keys handed out
MaxUowProjectId == 2
MaxUowTaskId == 1

\* SpecStrings: primary keys handed out
MaxStrProjectId == 2
MaxStrTaskId == 2

\* SpecProjectTime: primary keys handed out
MaxPtProjectId == 2
MaxPtTaskId == 1

\* SpecCreate: primary keys handed out
MaxCrProjectId == 2
MaxCrTaskId == 2

\* SpecRace: primary keys handed out
MaxRaceProjectId == 10
MaxRaceTaskId == 20

\* SpecOrder: primary keys of tasks handed out
MaxOrderTaskId == 20

None == << >>
Some(v) == << v >>

\* TaskStatus
TODO == "todo"
DOING == "doing"
DONE == "done"
TaskStatus == {TODO, DOING, DONE}

\* exceptions (src/app/exceptions.py)
NoError == "none"
DuplicateProjectNameError == "DuplicateProjectNameError"
ProjectNotFoundError == "ProjectNotFoundError"
ProjectLimitExceededError == "ProjectLimitExceededError"
TaskNotFoundError == "TaskNotFoundError"
TaskLimitExceededError == "TaskLimitExceededError"
\* the exception session.flush() raises when the storage refuses a write
SQLAlchemyError == "SQLAlchemyError"

VARIABLES
    projects,       \* table projects: id -> [name, description, created_at]
    tasks,          \* table tasks: id -> [title, description, status, deadline,
                    \*                     created_at, closed_at, project_id]
    nextProjectId,  \* the next primary key of table projects
    nextTaskId,     \* the next primary key of table tasks
    now,            \* datetime.utcnow()
    result,         \* the last service call: its name, arguments and outcome
    pending         \* per caller: the call that has passed its checks and has
                    \* not yet written (Idle: none)

vars == <<projects, tasks, nextProjectId, nextTaskId, now, result, pending>>

\* The outcome of a call: op, the arguments (id: the project or task id given, or
\* the id of the row created; pid: the project_id given to add_task_to_project;
\* name: the name or title given; st: the status given), the exception raised
\* (NoError when the call returned), the clock when the call ran, and the
\* addressed row as it was loaded at the start of change_task_status (None for
\* the other calls).
Outcome(op, err, id, pid, name, st, before) ==
    [op |-> op, err |-> err, id |-> id, pid |-> pid, name |-> name, st |-> st,
     at |-> now, before |-> before]

\* the two callers whose calls may interleave, and a caller that is not inside
\* a call
Callers == {1, 2}
Idle == [op |-> "idle", name |-> "", pid |-> 0]

(* ---- repositories -------------------------------------------------------*)
\* ProjectRepository.get_all
ProjectRepoGetAll == DOMAIN projects

\* ProjectRepository.get_by_id: the rows found (empty: None)
ProjectRepoGetById(project_id) == {p \in DOMAIN projects : p = project_id}

\* ProjectRepository.get_by_name: filter_by(name=project_name)
ProjectRepoGetByName(project_name) ==
    {p \in DOMAIN projects : projects[p].name = project_name}

\* TaskRepository.get_by_id
TaskRepoGetById(task_id) == {t \in DOMAIN tasks : t = task_id}

\* TaskRepository.get_by_name: where(Task.title == task_name)
TaskRepoGetByName(task_name) == {t \in DOMAIN tasks : tasks[t].title = task_name}

\* TaskRepository.get_all_for_project
TaskRepoGetAllForProject(project_id) ==
    {t \in DOMAIN tasks : tasks[t].project_id = project_id}

\* a table with one more row / with rows removed
Put(f, k, v) == [x \in DOMAIN f \cup {k} |-> IF x = k THEN v ELSE f[x]]
Drop(f, ks) == [x \in DOMAIN f \ ks |-> f[x]]

(* ---- entities -----------------------------------------------------------*)
\* Project(name, description): the fields the caller gives
NewProject(name, description) == [name |-> name, description |-> description]

\* Task(title, description, deadline, project_id)
NewTask(title, description, deadline, project_id) ==
    [title |-> title, description |-> description, deadline |-> deadline,
     project_id |-> project_id]

\* the row INSERTed for a project: created_at defaults to utcnow
ProjectRow(p) ==
    [name |-> p.name, description |-> p.description, created_at |-> now]

\* an INSERT that leaves the deadline column NULL
TaskRow_DeadlineDropped(t) ==
    [title |-> t.title, description |-> t.description, status |-> TODO,
     deadline |-> None, created_at |-> now, closed_at |-> None,
     project_id |-> t.project_id]

\* the row INSERTed for a task: status defaults to TODO, created_at to utcnow,
\* closed_at is NULL
TaskRow(t) ==
    [title |-> t.title, description |-> t.description, status |-> TODO,
     deadline |-> t.deadline, created_at |-> now, closed_at |-> None,
     project_id |-> t.project_id]

Init ==
    /\ projects = << >>
    /\ tasks = << >>
    /\ nextProjectId = 1
    /\ nextTaskId = 1
    /\ now = 0
    /\ result = Outcome("init", NoError, 0, 0, "", "", None)
    /\ pending = [c \in Callers |-> Idle]

\* a call that raises, or only reads: the unit of work changes no row
Fail(op, err, id, pid, name, st) ==
    /\ result' = Outcome(op, err, id, pid, name, st, None)
    /\ UNCHANGED <<projects, tasks, nextProjectId, nextTaskId, now, pending>>

(* ---- ProjectService -----------------------------------------------------*)
\* the project limit compared with > instead of >=
ProjectLimitReached_OffByOne == Cardinality(ProjectRepoGetAll) > MAX_PROJECTS

\* Business Rule 1 of create_project
ProjectLimitReached == Cardinality(ProjectRepoGetAll) >= MAX_PROJECTS

\* create_project without Business Rule 2
CreateNameTaken_Unchecked(name) == FALSE

\* Business Rule 2 of create_project
CreateNameTaken(name) == ProjectRepoGetByName(name) # {}

\* create_project with Business Rule 2 tested before Business Rule 1
create_project_error_NameFirst(name) ==
    IF CreateNameTaken(name) THEN DuplicateProjectNameError
    ELSE IF ProjectLimitReached THEN ProjectLimitExceededError
    ELSE NoError

\* the exception create_project raises
create_project_error(name) ==
    IF ProjectLimitReached THEN ProjectLimitExceededError
    ELSE IF CreateNameTaken(name) THEN DuplicateProjectNameError
    ELSE NoError

create_project(name, description) ==
    IF create_project_error(name) # NoError
    THEN Fail("create_project", create_project_error(name), 0, 0, name, "")
    ELSE /\ projects' = Put(projects, nextProjectId,
                            ProjectRow(NewProject(name, description)))
         /\ nextProjectId' = nextProjectId + 1
         /\ result' = Outcome("create_project", NoError, nextProjectId, 0, name,
                              "", None)
         /\ UNCHANGED <<tasks, nextTaskId, now, pending>>

\* the exception get_project_by_id raises
get_project_by_id_error(project_id) ==
    IF ProjectRepoGetById(project_id) = {} THEN ProjectNotFoundError ELSE NoError

get_project_by_id(project_id) ==
    Fail("get_project_by_id", get_project_by_id_error(project_id), project_id, 0,
         "", "")

\* the exception get_project_by_name raises
get_project_by_name_error(project_name) ==
    IF ProjectRepoGetByName(project_name) = {} THEN ProjectNotFoundError
    ELSE NoError

get_project_by_name(project_name) ==
    IF get_project_by_name_error(project_name) # NoError
    THEN Fail("get_project_by_name", ProjectNotFoundError, 0, 0, project_name, "")
    ELSE \E p \in ProjectRepoGetByName(project_name) :
            Fail("get_project_by_name", NoError, p, 0, project_name, "")

get_all_projects ==
    Fail("get_all_projects", NoError, 0, 0, "", "")

\* update_project without its duplicate check
UpdateNameTaken_Unchecked(project_id, name) == FALSE

\* update_project that checks the name also when it does not change
UpdateNameTaken_AlwaysChecked(project_id, name) ==
    ProjectRepoGetByName(name) # {}

\* Business Rule of update_project: the name is checked only when it changes
UpdateNameTaken(project_id, name) ==
    projects[project_id].name # name /\ ProjectRepoGetByName(name) # {}

\* the exception update_project raises
update_project_error(project_id, name) ==
    IF get_project_by_id_error(project_id) # NoError
    THEN get_project_by_id_error(project_id)
    ELSE IF UpdateNameTaken(project_id, name) THEN DuplicateProjectNameError
    ELSE NoError

\* an update that also stamps created_at
UpdatedProject_Restamped(project, name, description) ==
    [project EXCEPT !.name = name, !.description = description,
                    !.created_at = now]

\* the loaded project with the fields update_project assigns
UpdatedProject(project, name, description) ==
    [project EXCEPT !.name = name, !.description = description]

update_project(project_id, name, description) ==
    IF update_project_error(project_id, name) # NoError
    THEN Fail("update_project", update_project_error(project_id, name),
              project_id, 0, name, "")
    ELSE /\ projects' = [projects EXCEPT ![project_id] =
                            UpdatedProject(projects[project_id], name, description)]
         /\ result' = Outcome("update_project", NoError, project_id, 0, name, "",
                              None)
         /\ UNCHANGED <<tasks, nextProjectId, nextTaskId, now, pending>>

\* a relationship without the delete cascade
CascadeTasks_None(project_id) == {}

\* a cascade that deletes the tasks of every project
CascadeTasks_AllTasks(project_id) == DOMAIN tasks

\* Project.tasks, cascade="all, delete-orphan": the rows deleted with a project
CascadeTasks(project_id) == TaskRepoGetAllForProject(project_id)

delete_project_by_id(project_id) ==
    IF get_project_by_id_error(project_id) # NoError
    THEN Fail("delete_project_by_id", get_project_by_id_error(project_id),
              project_id, 0, "", "")
    ELSE /\ projects' = Drop(projects, {project_id})
         /\ tasks' = Drop(tasks, CascadeTasks(project_id))
         /\ result' = Outcome("delete_project_by_id", NoError, project_id, 0, "",
                              "", None)
         /\ UNCHANGED <<nextProjectId, nextTaskId, now, pending>>

(* ---- TaskService --------------------------------------------------------*)
\* the task limit counted over all tasks instead of the project's
TaskLimitReached_AllTasks(project_id) ==
    Cardinality(DOMAIN tasks) >= MAX_TASKS_PER_PROJECT

\* Business Rule 2 of add_task_to_project
TaskLimitReached(project_id) ==
    Cardinality(TaskRepoGetAllForProject(project_id)) >= MAX_TASKS_PER_PROJECT

\* add_task_to_project without Business Rule 1
add_task_to_project_error_NoProjectCheck(project_id) ==
    IF TaskLimitReached(project_id) THEN TaskLimitExceededError ELSE NoError

\* the exception add_task_to_project raises
add_task_to_project_error(project_id) ==
    IF ProjectRepoGetById(project_id) = {} THEN ProjectNotFoundError
    ELSE IF TaskLimitReached(project_id) THEN TaskLimitExceededError
    ELSE NoError

add_task_to_project(project_id, title, description, deadline) ==
    IF add_task_to_project_error(project_id) # NoError
    THEN Fail("add_task_to_project", add_task_to_project_error(project_id), 0,
              project_id, title, "")
    ELSE /\ tasks' = Put(tasks, nextTaskId,
                         TaskRow(NewTask(title, description, deadline, project_id)))
         /\ nextTaskId' = nextTaskId + 1
         /\ result' = Outcome("add_task_to_project", NoError, nextTaskId,
                              project_id, title, "", None)
         /\ UNCHANGED <<projects, nextProjectId, now, pending>>

\* a task lookup that reports a missing task as a missing project
get_task_by_id_error_WrongKind(task_id) ==
    IF TaskRepoGetById(task_id) = {} THEN ProjectNotFoundError ELSE NoError

\* the exception get_task_by_id raises
get_task_by_id_error(task_id) ==
    IF TaskRepoGetById(task_id) = {} THEN TaskNotFoundError ELSE NoError

get_task_by_id(task_id) ==
    Fail("get_task_by_id", get_task_by_id_error(task_id), task_id, 0, "", "")

\* the exception get_task_by_name raises
get_task_by_name_error(task_name) ==
    IF TaskRepoGetByName(task_name) = {} THEN TaskNotFoundError ELSE NoError

get_task_by_name(task_name) ==
    IF get_task_by_name_error(task_name) # NoError
    THEN Fail("get_task_by_name", TaskNotFoundError, 0, 0, task_name, "")
    ELSE \E t \in TaskRepoGetByName(task_name) :
            Fail("get_task_by_name", NoError, t, 0, task_name, "")

\* change_task_status that stamps closed_at on every move to DONE
ClosedAtAfter_AlwaysStamped(task, new_status) ==
    IF new_status = DONE THEN Some(now) ELSE None

\* change_task_status that clears closed_at only on a move to TODO
ClosedAtAfter_ClearedOnTodo(task, new_status) ==
    IF new_status = DONE /\ task.closed_at = None THEN Some(now)
    ELSE IF new_status = TODO THEN None
    ELSE task.closed_at

\* change_task_status that never clears closed_at
ClosedAtAfter_NeverCleared(task, new_status) ==
    IF new_status = DONE /\ task.closed_at = None THEN Some(now)
    ELSE task.closed_at

\* closed_at as change_task_status leaves it
ClosedAtAfter(task, new_status) ==
    IF new_status = DONE /\ task.closed_at = None THEN Some(now)
    ELSE IF new_status # DONE THEN None
    ELSE task.closed_at

\* a rule that a DONE task cannot be moved back
StatusAfter_DoneIsFinal(task, new_status) ==
    IF task.status = DONE THEN DONE ELSE new_status

\* status as change_task_status leaves it
StatusAfter(task, new_status) == new_status

\* a status change that takes a DONE task out of its project
UpdatedTask_Detached(task, new_status) ==
    [task EXCEPT !.status = StatusAfter(task, new_status),
                 !.closed_at = ClosedAtAfter(task, new_status),
                 !.project_id = IF new_status = DONE THEN 0 ELSE @]

\* the loaded task with the fields change_task_status assigns
UpdatedTask(task, new_status) ==
    [task EXCEPT !.status = StatusAfter(task, new_status),
                 !.closed_at = ClosedAtAfter(task, new_status)]

change_task_status(task_id, new_status) ==
    IF get_task_by_id_error(task_id) # NoError
    THEN Fail("change_task_status", get_task_by_id_error(task_id), task_id, 0, "",
              new_status)
    ELSE /\ tasks' = [tasks EXCEPT ![task_id] =
                        UpdatedTask(tasks[task_id], new_status)]
         /\ result' = Outcome("change_task_status", NoError, task_id, 0, "",
                              new_status, Some(tasks[task_id]))
         /\ UNCHANGED <<projects, nextProjectId, nextTaskId, now, pending>>

(* ---- the unit of work when the repository write fails -------------------*)
\* a unit of work that commits what was flushed although its body raised
RolledBack_Kept(persisted, flushed) == flushed

\* get_db_session, except Exception: db.rollback() - the table is left as it was
\* persisted before the body ran, whatever the body changed in the session
RolledBack(persisted, flushed) == persisted

\* create_project whose repository add raises in flush: the INSERT may or may
\* not have consumed a primary key
create_project_write_fails(name, description) ==
    /\ create_project_error(name) = NoError
    /\ projects' = RolledBack(projects,
                       Put(projects, nextProjectId,
                           ProjectRow(NewProject(name, description))))
    /\ nextProjectId' \in {nextProjectId, nextProjectId + 1}
    /\ result' = Outcome("create_project", SQLAlchemyError, 0, 0, name, "", None)
    /\ UNCHANGED <<tasks, nextTaskId, now, pending>>

\* update_project whose repository update raises in flush, after the loaded
\* project has been assigned the new name and description
update_project_write_fails(project_id, name, description) ==
    /\ update_project_error(project_id, name) = NoError
    /\ projects' = RolledBack(projects,
                       [projects EXCEPT ![project_id] =
                           UpdatedProject(projects[project_id], name, description)])
    /\ result' = Outcome("update_project", SQLAlchemyError, project_id, 0, name,
                         "", None)
    /\ UNCHANGED <<tasks, nextProjectId, nextTaskId, now, pending>>

\* delete_project_by_id whose repository delete raises in flush
delete_project_by_id_write_fails(project_id) ==
    /\ get_project_by_id_error(project_id) = NoError
    /\ projects' = RolledBack(projects, Drop(projects, {project_id}))
    /\ tasks' = RolledBack(tasks, Drop(tasks, CascadeTasks(project_id)))
    /\ result' = Outcome("delete_project_by_id", SQLAlchemyError, project_id, 0,
                         "", "", None)
    /\ UNCHANGED <<nextProjectId, nextTaskId, now, pending>>

\* add_task_to_project whose repository add raises in flush
add_task_to_project_write_fails(project_id, title, description, deadline) ==
    /\ add_task_to_project_error(project_id) = NoError
    /\ tasks' = RolledBack(tasks,
                    Put(tasks, nextTaskId,
                        TaskRow(NewTask(title, description, deadline, project_id))))
    /\ nextTaskId' \in {nextTaskId, nextTaskId + 1}
    /\ result' = Outcome("add_task_to_project", SQLAlchemyError, 0, project_id,
                         title, "", None)
    /\ UNCHANGED <<projects, nextProjectId, now, pending>>

\* change_task_status whose repository update raises in flush, after the loaded
\* task has been assigned the new status and closed_at
change_task_status_write_fails(task_id, new_status) ==
    /\ get_task_by_id_error(task_id) = NoError
    /\ tasks' = RolledBack(tasks,
                    [tasks EXCEPT ![task_id] =
                        UpdatedTask(tasks[task_id], new_status)])
    /\ result' = Outcome("change_task_status", SQLAlchemyError, task_id, 0, "",
                         new_status, Some(tasks[task_id]))
    /\ UNCHANGED <<projects, nextProjectId, nextTaskId, now, pending>>

(* ---- interleaved callers: a call's reads, then another caller, then its write *)
\* a table without the UNIQUE constraint on projects.name
UniqueNameViolated_NoConstraint(name) == FALSE

\* Project.name, unique=True: the storage refuses an INSERT of a stored name
UniqueNameViolated(name) == ProjectRepoGetByName(name) # {}

\* Task.project_id, ForeignKey("projects.id"): the storage refuses a task of no
\* stored project
ForeignKeyViolated(project_id) == ProjectRepoGetById(project_id) = {}

\* create_project up to its write: Business Rules 1 and 2 read the table
create_project_check(c, name) ==
    /\ pending[c] = Idle
    /\ IF create_project_error(name) # NoError
       THEN /\ result' = Outcome("create_project", create_project_error(name), 0,
                                 0, name, "", None)
            /\ UNCHANGED pending
       ELSE /\ pending' = [pending EXCEPT ![c] =
                             [op |-> "create_project", name |-> name, pid |-> 0]]
            /\ UNCHANGED result
    /\ UNCHANGED <<projects, tasks, nextProjectId, nextTaskId, now>>

\* create_project from its write on: _repo.add flushes the INSERT, which the
\* storage refuses when the name is stored by now (the key may be consumed)
create_project_write(c, description) ==
    /\ pending[c].op = "create_project"
    /\ pending' = [pending EXCEPT ![c] = Idle]
    /\ IF UniqueNameViolated(pending[c].name)
       THEN /\ projects' = RolledBack(projects, projects)
            /\ nextProjectId' \in {nextProjectId, nextProjectId + 1}
            /\ result' = Outcome("create_project", SQLAlchemyError, 0, 0,
                                 pending[c].name, "", None)
       ELSE /\ projects' = Put(projects, nextProjectId,
                               ProjectRow(NewProject(pending[c].name, description)))
            /\ nextProjectId' = nextProjectId + 1
            /\ result' = Outcome("create_project", NoError, nextProjectId, 0,
                                 pending[c].name, "", None)
    /\ UNCHANGED <<tasks, nextTaskId, now>>

\* add_task_to_project up to its write: Business Rules 1 and 2 read the tables
add_task_to_project_check(c, project_id, title) ==
    /\ pending[c] = Idle
    /\ IF add_task_to_project_error(project_id) # NoError
       THEN /\ result' = Outcome("add_task_to_project",
                                 add_task_to_project_error(project_id), 0,
                                 project_id, title, "", None)
            /\ UNCHANGED pending
       ELSE /\ pending' = [pending EXCEPT ![c] =
                             [op |-> "add_task_to_project", name |-> title,
                              pid |-> project_id]]
            /\ UNCHANGED result
    /\ UNCHANGED <<projects, tasks, nextProjectId, nextTaskId, now>>

\* add_task_to_project from its write on: _task_repo.add flushes the INSERT
add_task_to_project_write(c, description, deadline) ==
    /\ pending[c].op = "add_task_to_project"
    /\ pending' = [pending EXCEPT ![c] = Idle]
    /\ IF ForeignKeyViolated(pending[c].pid)
       THEN /\ tasks' = RolledBack(tasks, tasks)
            /\ nextTaskId' \in {nextTaskId, nextTaskId + 1}
            /\ result' = Outcome("add_task_to_project", SQLAlchemyError, 0,
                                 pending[c].pid, pending[c].name, "", None)
       ELSE /\ tasks' = Put(tasks, nextTaskId,
                            TaskRow(NewTask(pending[c].name, description, deadline,
                                            pending[c].pid)))
            /\ nextTaskId' = nextTaskId + 1
            /\ result' = Outcome("add_task_to_project", NoError, nextTaskId,
                                 pending[c].pid, pending[c].name, "", None)
    /\ UNCHANGED <<projects, nextProjectId, now>>

(* ---- the environment ----------------------------------------------------*)
\* time passes between calls
Tick ==
    /\ now < MaxClock
    /\ now' = now + 1
    /\ UNCHANGED <<projects, tasks, nextProjectId, nextTaskId, result, pending>>

(* ---- Spec: every service call, on a few projects and tasks --------------*)
Names == {"a", "b"}
Descriptions == {Some("d")}
Titles == {"t"}
TaskDescriptions == {None}
Deadlines == {Some(1)}
ProjectIds == 1..(MaxProjectId + 1)
TaskIds == 1..(MaxTaskId + 1)

CreateProject ==
    \E name \in Names, description \in Descriptions :
        /\ nextProjectId <= MaxProjectId \/ create_project_error(name) # NoError
        /\ create_project(name, description)
GetProjectById == \E project_id \in ProjectIds : get_project_by_id(project_id)
GetProjectByName == \E name \in Names : get_project_by_name(name)
GetAllProjects == get_all_projects
UpdateProject ==
    \E project_id \in ProjectIds, name \in Names, description \in Descriptions :
        update_project(project_id, name, description)
DeleteProjectById == \E project_id \in ProjectIds : delete_project_by_id(project_id)
AddTaskToProject ==
    \E project_id \in ProjectIds, title \in Titles,
       description \in TaskDescriptions, deadline \in Deadlines :
        /\ nextTaskId <= MaxTaskId \/ add_task_to_project_error(project_id) # NoError
        /\ add_task_to_project(project_id, title, description, deadline)
GetTaskById == \E task_id \in TaskIds : get_task_by_id(task_id)
GetTaskByName == \E title \in Titles : get_task_by_name(title)
ChangeTaskStatus ==
    \E task_id \in TaskIds, new_status \in TaskStatus :
        change_task_status(task_id, new_status)

Next ==
    \/ CreateProject
    \/ GetProjectById
    \/ GetProjectByName
    \/ GetAllProjects
    \/ UpdateProject
    \/ DeleteProjectById
    \/ AddTaskToProject
    \/ GetTaskById
    \/ GetTaskByName
    \/ ChangeTaskStatus

Spec == Init /\ [][Next]_vars

(* ---- SpecTime: status changes while time passes --------------------------*)
TimeCreateProject ==
    /\ nextProjectId <= MaxTimeProjectId \/ create_project_error("a") # NoError
    /\ create_project("a", None)
TimeAddTaskToProject ==
    \E project_id \in 1..MaxTimeProjectId :
        /\ nextTaskId <= MaxTimeTaskId \/ add_task_to_project_error(project_id) # NoError
        /\ add_task_to_project(project_id, "t", None, None)
TimeChangeTaskStatus ==
    \E task_id \in 1..MaxTimeTaskId, new_status \in TaskStatus :
        change_task_status(task_id, new_status)

NextTime ==
    \/ TimeCreateProject
    \/ TimeAddTaskToProject
    \/ TimeChangeTaskStatus
    \/ Tick

SpecTime == Init /\ [][NextTime]_vars

(* ---- SpecProjectCap: projects up to the limit ----------------------------*)
\* the name the environment gives the project that receives primary key i
CapNames == <<"a", "b", "c", "d", "e", "f", "g", "h", "i", "j", "k", "l", "m",
              "n">>
SpareName == "z"

CapCreateNames == {CapNames[nextProjectId], CapNames[1]}
CapUpdateNames == {CapNames[1], CapNames[2], SpareName}

CapCreateProject ==
    \E name \in CapCreateNames :
        /\ nextProjectId <= MaxCapProjectId \/ create_project_error(name) # NoError
        /\ create_project(name, None)
CapUpdateProject ==
    \E project_id \in 1..MaxCapTouch, name \in CapUpdateNames :
        update_project(project_id, name, Some("d"))
CapDeleteProjectById ==
    \E project_id \in 1..MaxCapTouch : delete_project_by_id(project_id)

NextProjectCap ==
    \/ CapCreateProject
    \/ CapUpdateProject
    \/ CapDeleteProjectById

SpecProjectCap == Init /\ [][NextProjectCap]_vars

(* ---- SpecTaskCap: the tasks of one project up to the limit ---------------*)
TaskCapProjectIds == {1, 2}

TaskCapCreateProject ==
    \E name \in Names :
        /\ nextProjectId \in TaskCapProjectIds \/ create_project_error(name) # NoError
        /\ create_project(name, None)
TaskCapAddTaskToProject ==
    \E project_id \in TaskCapProjectIds \cup {3} :
        /\ nextTaskId <= MaxCapTaskId \/ add_task_to_project_error(project_id) # NoError
        /\ \/ project_id = 1
           \/ Cardinality(TaskRepoGetAllForProject(project_id)) < MaxOtherTasks
        /\ add_task_to_project(project_id, "t", None, None)
TaskCapChangeTaskStatus ==
    \E task_id \in 1..MaxCapStatusTask : change_task_status(task_id, DONE)
TaskCapDeleteProjectById ==
    \E project_id \in TaskCapProjectIds : delete_project_by_id(project_id)

NextTaskCap ==
    \/ TaskCapCreateProject
    \/ TaskCapAddTaskToProject
    \/ TaskCapChangeTaskStatus
    \/ TaskCapDeleteProjectById

SpecTaskCap == Init /\ [][NextTaskCap]_vars

(* ---- SpecUnitOfWork: calls whose repository write may fail ---------------*)
UowDescriptions == {None, Some("d")}

UowCreateProject ==
    \E name \in Names :
        /\ nextProjectId <= MaxUowProjectId \/ create_project_error(name) # NoError
        /\ create_project(name, None)
UowUpdateProject ==
    \E project_id \in 1..(MaxUowProjectId + 1), name \in Names,
       description \in UowDescriptions :
        update_project(project_id, name, description)
UowDeleteProjectById ==
    \E project_id \in 1..(MaxUowProjectId + 1) : delete_project_by_id(project_id)
UowAddTaskToProject ==
    \E project_id \in 1..(MaxUowProjectId + 1) :
        /\ nextTaskId <= MaxUowTaskId \/ add_task_to_project_error(project_id) # NoError
        /\ add_task_to_project(project_id, "t", None, None)
UowChangeTaskStatus ==
    \E task_id \in 1..(MaxUowTaskId + 1), new_status \in TaskStatus :
        change_task_status(task_id, new_status)
UowCreateProjectWriteFails ==
    \E name \in Names :
        /\ nextProjectId <= MaxUowProjectId
        /\ create_project_write_fails(name, None)
UowUpdateProjectWriteFails ==
    \E project_id \in 1..MaxUowProjectId, name \in Names,
       description \in UowDescriptions :
        update_project_write_fails(project_id, name, description)
UowDeleteProjectByIdWriteFails ==
    \E project_id \in 1..MaxUowProjectId :
        delete_project_by_id_write_fails(project_id)
UowAddTaskToProjectWriteFails ==
    \E project_id \in 1..MaxUowProjectId :
        /\ nextTaskId <= MaxUowTaskId
        /\ add_task_to_project_write_fails(project_id, "t", None, None)
UowChangeTaskStatusWriteFails ==
    \E task_id \in 1..MaxUowTaskId, new_status \in TaskStatus :
        change_task_status_write_fails(task_id, new_status)

NextUnitOfWork ==
    \/ UowCreateProject
    \/ UowUpdateProject
    \/ UowDeleteProjectById
    \/ UowAddTaskToProject
    \/ UowChangeTaskStatus
    \/ UowCreateProjectWriteFails
    \/ UowUpdateProjectWriteFails
    \/ UowDeleteProjectByIdWriteFails
    \/ UowAddTaskToProjectWriteFails
    \/ UowChangeTaskStatusWriteFails

SpecUnitOfWork == Init /\ [][NextUnitOfWork]_vars

(* ---- SpecStrings: names and titles that may be the empty string ----------*)
StrNames == {"", "a"}
StrTitles == {"", "t"}

StrCreateProject ==
    \E name \in StrNames :
        /\ nextProjectId <= MaxStrProjectId \/ create_project_error(name) # NoError
        /\ create_project(name, None)
StrUpdateProject ==
    \E project_id \in 1..MaxStrProjectId, name \in StrNames :
        update_project(project_id, name, None)
StrAddTaskToProject ==
    \E project_id \in 1..MaxStrProjectId, title \in StrTitles :
        /\ nextTaskId <= MaxStrTaskId \/ add_task_to_project_error(project_id) # NoError
        /\ add_task_to_project(project_id, title, None, None)

NextStrings ==
    \/ StrCreateProject
    \/ StrUpdateProject
    \/ StrAddTaskToProject

SpecStrings == Init /\ [][NextStrings]_vars

(* ---- SpecProjectTime: project calls while time passes ---------------------*)
PtCreateProject ==
    \E name \in Names :
        /\ nextProjectId <= MaxPtProjectId \/ create_project_error(name) # NoError
        /\ create_project(name, None)
PtUpdateProject ==
    \E project_id \in 1..MaxPtProjectId, name \in Names,
       description \in UowDescriptions :
        update_project(project_id, name, description)
PtDeleteProjectById ==
    \E project_id \in 1..MaxPtProjectId : delete_project_by_id(project_id)
PtAddTaskToProject ==
    \E project_id \in 1..MaxPtProjectId :
        /\ nextTaskId <= MaxPtTaskId \/ add_task_to_project_error(project_id) # NoError
        /\ add_task_to_project(project_id, "t", None, None)

NextProjectTime ==
    \/ PtCreateProject
    \/ PtUpdateProject
    \/ PtDeleteProjectById
    \/ PtAddTaskToProject
    \/ Tick

SpecProjectTime == Init /\ [][NextProjectTime]_vars

(* ---- SpecCreate: creates with differing arguments, and gets by id --------*)
\* the arguments the environment gives; the name (title) tells which
CreateArgs ==
    {[name |-> "a", description |-> None],
     [name |-> "b", description |-> Some("d")]}
TaskArgs ==
    {[title |-> "t", description |-> None, deadline |-> Some(1)],
     [title |-> "u", description |-> Some("e"), deadline |-> None]}

CrCreateProject ==
    \E a \in CreateArgs :
        /\ nextProjectId <= MaxCrProjectId \/ create_project_error(a.name) # NoError
        /\ create_project(a.name, a.description)
CrAddTaskToProject ==
    \E project_id \in 1..MaxCrProjectId, a \in TaskArgs :
        /\ nextTaskId <= MaxCrTaskId \/ add_task_to_project_error(project_id) # NoError
        /\ add_task_to_project(project_id, a.title, a.description, a.deadline)
CrGetProjectById ==
    \E project_id \in 1..MaxCrProjectId : get_project_by_id(project_id)
CrGetTaskById == \E task_id \in 1..MaxCrTaskId : get_task_by_id(task_id)
CrDeleteProjectById ==
    \E project_id \in 1..MaxCrProjectId : delete_project_by_id(project_id)

NextCreate ==
    \/ CrCreateProject
    \/ CrAddTaskToProject
    \/ CrGetProjectById
    \/ CrGetTaskById
    \/ CrDeleteProjectById

SpecCreate == Init /\ [][NextCreate]_vars

(* ---- SpecRace: callers whose reads and writes interleave -------------------*)
\* the names a caller gives: the next name not used so far, which callers may
\* give at the same time, and from one project below the limit on also the name
\* after it
RaceNames ==
    {CapNames[Cardinality(DOMAIN projects) + 1]} \cup
    IF Cardinality(DOMAIN projects) + 1 >= MAX_PROJECTS
    THEN {CapNames[Cardinality(DOMAIN projects) + 2]}
    ELSE {}

RaceCreateProjectCheck ==
    \E c \in Callers, name \in RaceNames :
        /\ nextProjectId <= MaxRaceProjectId \/ create_project_error(name) # NoError
        /\ create_project_check(c, name)
RaceCreateProjectWrite ==
    \E c \in Callers : create_project_write(c, None)
RaceAddTaskToProjectCheck ==
    \E c \in Callers :
        /\ nextTaskId <= MaxRaceTaskId \/ add_task_to_project_error(1) # NoError
        /\ add_task_to_project_check(c, 1, "t")
RaceAddTaskToProjectWrite ==
    \E c \in Callers : add_task_to_project_write(c, None, None)

NextRace ==
    \/ RaceCreateProjectCheck
    \/ RaceCreateProjectWrite
    \/ RaceAddTaskToProjectCheck
    \/ RaceAddTaskToProjectWrite

SpecRace == Init /\ [][NextRace]_vars

(* ---- SpecOrder: projects up to the limit, and the tasks of the first -------*)
\* tasks are given to the first project, stored or deleted
OrderAddTaskToProject ==
    /\ nextTaskId <= MaxOrderTaskId \/ add_task_to_project_error(1) # NoError
    /\ add_task_to_project(1, "t", None, None)

NextOrder ==
    \/ CapCreateProject
    \/ CapDeleteProjectById
    \/ OrderAddTaskToProject

SpecOrder == Init /\ [][NextOrder]_vars

(* ---- SpecReclose: closing, reopening and closing again at different times -*)
\* a caller that moves a task to DOING only to reopen a DONE task, and only at a
\* later clock reading than the task's closed_at
RcChangeTaskStatus ==
    \E task_id \in 1..MaxTimeTaskId, new_status \in TaskStatus :
        /\ new_status = DOING =>
              /\ task_id \in DOMAIN tasks
              /\ tasks[task_id].status = DONE
              /\ tasks[task_id].closed_at # None
              /\ tasks[task_id].closed_at[1] < now
        /\ change_task_status(task_id, new_status)

NextReclose ==
    \/ TimeCreateProject
    \/ TimeAddTaskToProject
    \/ RcChangeTaskStatus
    \/ Tick

SpecReclose == Init /\ [][NextReclose]_vars

(* ---- properties ----------------------------------------------------------*)
Count(S) == Cardinality(S)
Called(op) == result.op = op
Returned(op) == result.op = op /\ result.err = NoError
Raised(op, err) == result.op = op /\ result.err = err

\* C1: no two stored projects have the same name, in every state reached by
\* create_project, update_project, delete_project_by_id, add_task_to_project and
\* change_task_status calls run one at a time.
C1_ProjectNamesUnique ==
    \A p \in DOMAIN projects, q \in DOMAIN projects :
        projects[p].name = projects[q].name => p = q

\* C1 witness: two projects are stored and renaming one to the name of the other
\* has just been refused.
C1_Witness ==
    /\ Raised("update_project", DuplicateProjectNameError)
    /\ Count(DOMAIN projects) >= 2
    /\ projects[result.id].name # result.name
    /\ \E q \in DOMAIN projects : projects[q].name = result.name

\* C2: every stored task has closed_at present exactly when its status is DONE,
\* and a task add_task_to_project has just created has status TODO and no
\* closed_at.
C2_ClosedAtIffDone ==
    /\ \A t \in DOMAIN tasks :
          (tasks[t].closed_at # None) <=> (tasks[t].status = DONE)
    /\ Returned("add_task_to_project") =>
          /\ tasks[result.id].status = TODO
          /\ tasks[result.id].closed_at = None

\* C2 witness: a task that was DONE has been moved to another status while
\* another task is DONE.
C2_Witness ==
    /\ Returned("change_task_status")
    /\ result.st # DONE
    /\ result.before # None
    /\ result.before[1].status = DONE
    /\ \E t \in DOMAIN tasks : tasks[t].status = DONE

\* C3: the number of stored projects never exceeds MAX_PROJECTS; create_project
\* with a name no project has succeeds whenever fewer than MAX_PROJECTS projects
\* are stored (also after deletions), and with MAX_PROJECTS stored it raises the
\* project limit error and adds nothing.
C3_State ==
    /\ Count(DOMAIN projects) <= MAX_PROJECTS
    /\ Raised("create_project", ProjectLimitExceededError) =>
          Count(DOMAIN projects) = MAX_PROJECTS

C3_Step ==
    result'.op = "create_project" =>
        LET n == Count(DOMAIN projects)
            name == result'.name
        IN  /\ (n < MAX_PROJECTS /\ ProjectRepoGetByName(name) = {}) =>
                  /\ result'.err = NoError
                  /\ result'.id \notin DOMAIN projects
                  /\ DOMAIN projects' = DOMAIN projects \cup {result'.id}
                  /\ \A q \in DOMAIN projects : projects'[q] = projects[q]
            /\ n = MAX_PROJECTS =>
                  /\ result'.err = ProjectLimitExceededError
                  /\ projects' = projects
                  /\ tasks' = tasks

C4_State ==
    /\ \A p \in DOMAIN projects :
          Count(TaskRepoGetAllForProject(p)) <= MAX_TASKS_PER_PROJECT
    /\ Raised("add_task_to_project", TaskLimitExceededError) =>
          Count(TaskRepoGetAllForProject(result.pid)) = MAX_TASKS_PER_PROJECT

C4_Step ==
    (result'.op = "add_task_to_project" /\ result'.pid \in DOMAIN projects) =>
        LET p == result'.pid
            n == Count(TaskRepoGetAllForProject(p))
        IN  /\ n = MAX_TASKS_PER_PROJECT =>
                  /\ result'.err = TaskLimitExceededError
                  /\ tasks' = tasks
                  /\ projects' = projects
            /\ n < MAX_TASKS_PER_PROJECT =>
                  /\ result'.err = NoError
                  /\ result'.id \notin DOMAIN tasks
                  /\ DOMAIN tasks' = DOMAIN tasks \cup {result'.id}
                  /\ tasks'[result'.id].project_id = p
                  /\ \A t \in DOMAIN tasks : tasks'[t] = tasks[t]

C5_Original ==
    [][ ( /\ result'.op \in {"create_project", "update_project"}
          /\ result'.op = "update_project" => result'.id \in DOMAIN projects
          /\ ProjectRepoGetByName(result'.name) # {} )
        => result'.err = DuplicateProjectNameError ]_vars

\* C5 as amended: create_project with a name some stored project has raises
\* DuplicateProjectNameError when fewer than MAX_PROJECTS projects are stored and
\* the project limit error when MAX_PROJECTS are; update_project of a stored
\* project to a name another stored project has raises
\* DuplicateProjectNameError; neither changes a row.
C5_Step ==
    LET name == result'.name
        n == Count(DOMAIN projects)
    IN  /\ (result'.op = "create_project" /\ ProjectRepoGetByName(name) # {}) =>
              /\ n < MAX_PROJECTS => result'.err = DuplicateProjectNameError
              /\ n >= MAX_PROJECTS => result'.err = ProjectLimitExceededError
              /\ projects' = projects
              /\ tasks' = tasks
        /\ ( /\ result'.op = "update_project"
             /\ result'.id \in DOMAIN projects
             /\ ProjectRepoGetByName(name) \ {result'.id} # {} ) =>
              /\ result'.err = DuplicateProjectNameError
              /\ projects' = projects
              /\ tasks' = tasks

\* C5 as amended: every create_project and update_project call that gives a name
\* another stored project has is refused as C5_Step says.
C5_DuplicateNameRefused == [][C5_Step]_vars

\* C5 witness: with MAX_PROJECTS projects stored, renaming one to the name of
\* another has just been refused.
C5_Witness ==
    /\ Raised("update_project", DuplicateProjectNameError)
    /\ Count(DOMAIN projects) = MAX_PROJECTS
    /\ result.id \in DOMAIN projects
    /\ projects[result.id].name # result.name

\* C6: a successful delete_project_by_id(p) removes p, leaves no task with
\* project_id p, makes get_task_by_id raise TaskNotFoundError for every task id
\* that belonged to p, and leaves every other project and the tasks of every
\* other project as they were.
C6_Step ==
    (result'.op = "delete_project_by_id" /\ result'.err = NoError) =>
        LET p == result'.id
        IN  /\ p \notin DOMAIN projects'
            /\ \A t \in DOMAIN tasks' : tasks'[t].project_id # p
            /\ \A t \in DOMAIN tasks :
                  tasks[t].project_id = p =>
                      (get_task_by_id_error(t) = TaskNotFoundError)'
            /\ DOMAIN projects' = DOMAIN projects \ {p}
            /\ \A q \in DOMAIN projects' : projects'[q] = projects[q]
            /\ \A t \in DOMAIN tasks :
                  tasks[t].project_id # p =>
                      t \in DOMAIN tasks' /\ tasks'[t] = tasks[t]
            /\ DOMAIN tasks' \subseteq DOMAIN tasks

\* C6: every successful delete_project_by_id removes the project and exactly its
\* own tasks (C6_Step).
C6_CascadeDelete == [][C6_Step]_vars

\* C6 witness: a project has just been deleted together with a task of its own
\* while another project and its task remain.
C6_Witness ==
    /\ Returned("delete_project_by_id")
    /\ DOMAIN projects # {}
    /\ DOMAIN tasks # {}
    /\ nextTaskId - 1 > Count(DOMAIN tasks)

\* C7: every stored task's project_id is the id of a stored project;
\* add_task_to_project with the id of no stored project raises
\* ProjectNotFoundError and creates no task.
C7_State ==
    /\ \A t \in DOMAIN tasks : tasks[t].project_id \in DOMAIN projects
    /\ Called("add_task_to_project") =>
          (result.err = ProjectNotFoundError <=> result.pid \notin DOMAIN projects)

C7_Step ==
    (result'.op = "add_task_to_project" /\ result'.pid \notin DOMAIN projects) =>
        /\ result'.err = ProjectNotFoundError
        /\ tasks' = tasks

\* C7: no stored task is an orphan in any state (C7_State), and
\* add_task_to_project for a project that is not stored raises
\* ProjectNotFoundError and creates no task (C7_Step).
C7_ReferentialIntegrity == [] C7_State /\ [][C7_Step]_vars

\* C7 witness: add_task_to_project has just been refused for a project that was
\* deleted, while tasks of another project are stored.
C7_Witness ==
    /\ Raised("add_task_to_project", ProjectNotFoundError)
    /\ result.pid < nextProjectId
    /\ DOMAIN tasks # {}

\* C8: change_task_status(id, DONE) on a task that is already DONE leaves the task,
\* its closed_at included, exactly as it was, also when the clock has advanced
\* since the task was closed.
C8_ReclosingKeepsClosedAt ==
    ( /\ Returned("change_task_status")
      /\ result.st = DONE
      /\ result.before[1].status = DONE ) =>
        /\ tasks[result.id] = result.before[1]
        /\ tasks[result.id].closed_at # None

\* C8 witness: a DONE task has just been moved to DONE again at a later clock
\* reading than its closed_at.
C8_Witness ==
    /\ Returned("change_task_status")
    /\ result.st = DONE
    /\ result.before[1].status = DONE
    /\ tasks[result.id].closed_at # None
    /\ tasks[result.id].closed_at[1] < result.at

\* C9: after change_task_status(id, s) with s TODO or DOING, closed_at is absent,
\* whatever the status was before.
C9_ReopeningClearsClosedAt ==
    (Returned("change_task_status") /\ result.st \in {TODO, DOING}) =>
        tasks[result.id].closed_at = None

\* C9 witness: a DONE task with a closed_at has just been moved to DOING.
C9_Witness ==
    /\ Returned("change_task_status")
    /\ result.st = DOING
    /\ result.before[1].status = DONE
    /\ result.before[1].closed_at # None

\* C10: change_task_status on a stored task returns for every current status and
\* every new status, and the stored status is then the new status; it raises
\* only TaskNotFoundError, and only for a task that is not stored.
C10_AnyTransitionAccepted ==
    Called("change_task_status") =>
        /\ result.err = NoError <=> result.id \in DOMAIN tasks
        /\ result.err = NoError =>
              /\ result.before # None
              /\ tasks[result.id].status = result.st
        /\ result.err # NoError => result.err = TaskNotFoundError

\* C10 witness: a DONE task has just been moved back to TODO.
C10_Witness ==
    /\ Returned("change_task_status")
    /\ result.st = TODO
    /\ result.before[1].status = DONE
    /\ tasks[result.id].status = TODO

\* C11: a service call that raises - a validation error or a failure of the
\* repository write after the loaded entity was assigned to - leaves every
\* stored project and task, with all their fields, as before the call.
C11_FailureChangesNothing ==
    [][ result'.err # NoError => (projects' = projects /\ tasks' = tasks) ]_vars

\* C11 witness: the write of change_task_status has just failed after the loaded
\* task was marked DONE, and the stored task is not DONE.
C11_Witness ==
    /\ Raised("change_task_status", SQLAlchemyError)
    /\ result.st = DONE
    /\ tasks[result.id].status # DONE
    /\ tasks[result.id].closed_at = None

C13_State ==
    /\ Returned("create_project") =>
          /\ result.id \in DOMAIN projects
          /\ projects[result.id].created_at = result.at
    /\ \A p \in DOMAIN projects :
          p < nextProjectId /\ projects[p].created_at <= now

\* C13, the steps: a project stored before and after a step keeps its
\* created_at; a successful update_project keeps the set of project ids, gives
\* the addressed project the name given, and changes no other project and no
\* task; an id once handed out is never handed out again.
C13_Step ==
    /\ \A p \in DOMAIN projects \cap DOMAIN projects' :
          projects'[p].created_at = projects[p].created_at
    /\ DOMAIN projects' \ DOMAIN projects \subseteq {nextProjectId}
    /\ nextProjectId' >= nextProjectId
    /\ (result'.op = "update_project" /\ result'.err = NoError) =>
          /\ DOMAIN projects' = DOMAIN projects
          /\ projects'[result'.id].name = result'.name
          /\ \A q \in DOMAIN projects \ {result'.id} : projects'[q] = projects[q]
          /\ tasks' = tasks

\* C13: a stored project keeps its id and created_at through every call, and a
\* successful update_project changes only the name and description of the
\* addressed project, no other project and no task.
C13_IdAndCreatedAtImmutable == [] C13_State /\ [][C13_Step]_vars

\* C13 witness: a project created earlier has just been renamed at a later
\* clock reading, while another project and a task are stored.
C13_Witness ==
    /\ Returned("update_project")
    /\ projects[result.id].created_at < result.at
    /\ projects[result.id].name = result.name
    /\ projects[result.id].description # None
    /\ Count(DOMAIN projects) = 2
    /\ DOMAIN tasks # {}

\* C14, the steps: a call addressed to a project that is not stored (by id:
\* get_project_by_id, update_project, delete_project_by_id; by name:
\* get_project_by_name) raises ProjectNotFoundError, a call addressed to a task
\* that is not stored (by id: get_task_by_id, change_task_status; by title:
\* get_task_by_name) raises TaskNotFoundError, and neither changes a row.
C14_Step ==
    LET op == result'.op
        unchanged == projects' = projects /\ tasks' = tasks
    IN  /\ ( /\ op \in {"get_project_by_id", "update_project",
                        "delete_project_by_id"}
             /\ result'.id \notin DOMAIN projects ) =>
              result'.err = ProjectNotFoundError /\ unchanged
        /\ ( /\ op = "get_project_by_name"
             /\ \A p \in DOMAIN projects : projects[p].name # result'.name ) =>
              result'.err = ProjectNotFoundError /\ unchanged
        /\ ( /\ op \in {"get_task_by_id", "change_task_status"}
             /\ result'.id \notin DOMAIN tasks ) =>
              result'.err = TaskNotFoundError /\ unchanged
        /\ ( /\ op = "get_task_by_name"
             /\ \A t \in DOMAIN tasks : tasks[t].title # result'.name ) =>
              result'.err = TaskNotFoundError /\ unchanged

\* C14: every call addressed to an absent project or task raises the NotFound
\* error of the matching kind and changes nothing (C14_Step); this includes ids
\* never handed out, deleted projects and tasks deleted with their project.
C14_AbsentRaisesNotFound == [][C14_Step]_vars

\* C14 witness: a second delete_project_by_id of a project has just raised
\* ProjectNotFoundError, and the task that was deleted with the project is
\* absent too.
C14_Witness ==
    /\ Raised("delete_project_by_id", ProjectNotFoundError)
    /\ result.id < nextProjectId
    /\ \E t \in 1..(nextTaskId - 1) : get_task_by_id_error(t) = TaskNotFoundError

\* C15, the states: the project (task) a create has just returned is stored
\* under the returned id and carries the name and description (title,
\* description, deadline and project_id) the caller gave.
C15_State ==
    /\ Returned("create_project") =>
          /\ result.id \in DOMAIN projects
          /\ \E a \in CreateArgs :
                /\ a.name = result.name
                /\ projects[result.id].name = a.name
                /\ projects[result.id].description = a.description
    /\ Returned("add_task_to_project") =>
          /\ result.id \in DOMAIN tasks
          /\ \E a \in TaskArgs :
                /\ a.title = result.name
                /\ tasks[result.id].title = a.title
                /\ tasks[result.id].description = a.description
                /\ tasks[result.id].deadline = a.deadline
                /\ tasks[result.id].project_id = result.pid

\* C15, the steps: the id a successful create returns is the id of no entity of
\* the kind stored before the call, and a get by that id right after the create
\* returns the stored row unchanged.
C15_Step ==
    /\ (result'.op = "create_project" /\ result'.err = NoError) =>
          result'.id \notin DOMAIN projects
    /\ (result'.op = "add_task_to_project" /\ result'.err = NoError) =>
          result'.id \notin DOMAIN tasks
    /\ ( /\ Returned("create_project")
         /\ result'.op = "get_project_by_id"
         /\ result'.id = result.id ) =>
          /\ result'.err = NoError
          /\ projects'[result'.id] = projects[result.id]
    /\ ( /\ Returned("add_task_to_project")
         /\ result'.op = "get_task_by_id"
         /\ result'.id = result.id ) =>
          /\ result'.err = NoError
          /\ tasks'[result'.id] = tasks[result.id]

C16_RaceBounds ==
    /\ Count(DOMAIN projects) <= MAX_PROJECTS + Count(Callers) - 1
    /\ \A p \in DOMAIN projects :
          Count(TaskRepoGetAllForProject(p)) <= MAX_TASKS_PER_PROJECT + Count(Callers) - 1
    /\ \A p \in DOMAIN projects, q \in DOMAIN projects :
          p # q => projects[p].name # projects[q].name
    /\ Raised("create_project", SQLAlchemyError) =>
          \E p \in DOMAIN projects : projects[p].name = result.name

\* C16 witness: more than MAX_PROJECTS projects are stored and one project holds
\* more than MAX_TASKS_PER_PROJECT tasks.
C16_Witness ==
    /\ Count(DOMAIN projects) > MAX_PROJECTS
    /\ \E p \in DOMAIN projects :
          Count(TaskRepoGetAllForProject(p)) > MAX_TASKS_PER_PROJECT

\* C17, the steps: create_project with MAX_PROJECTS projects stored raises the
\* project limit error for every name, a stored one included, and raises
\* DuplicateProjectNameError exactly when fewer are stored and the name is
\* stored; add_task_to_project to a project that is not stored raises
\* ProjectNotFoundError, and raises the task limit error only for a stored
\* project that holds MAX_TASKS_PER_PROJECT tasks.
C17_Step ==
    /\ result'.op = "create_project" =>
          LET n == Count(DOMAIN projects)
              used == ProjectRepoGetByName(result'.name) # {}
          IN  /\ n >= MAX_PROJECTS => result'.err = ProjectLimitExceededError
              /\ result'.err = DuplicateProjectNameError <=>
                    (n < MAX_PROJECTS /\ used)
    /\ result'.op = "add_task_to_project" =>
          LET p == result'.pid
          IN  /\ p \notin DOMAIN projects => result'.err = ProjectNotFoundError
              /\ result'.err = TaskLimitExceededError =>
                    /\ p \in DOMAIN projects
                    /\ Count(TaskRepoGetAllForProject(p)) >= MAX_TASKS_PER_PROJECT

\* C17: create_project tests the project limit before the name, and
\* add_task_to_project tests that the project exists before the task limit
\* (C17_Step).
C17_PreconditionOrder == [][C17_Step]_vars

\* C17 witness: with MAX_PROJECTS projects stored, create_project with the name
\* of a stored project has just raised the project limit error.
C17_Witness ==
    /\ Raised("create_project", ProjectLimitExceededError)
    /\ Count(DOMAIN projects) = MAX_PROJECTS
    /\ \E p \in DOMAIN projects : projects[p].name = result.name

\* C18, the steps: update_project of a stored project with its own current name
\* returns and changes at most that project's description; with the name of a
\* different stored project it raises DuplicateProjectNameError and changes no
\* row; with a name no project has it returns and stores the name, however many
\* projects are stored.
C18_Step ==
    (result'.op = "update_project" /\ result'.id \in DOMAIN projects) =>
        LET id == result'.id
            name == result'.name
            holders == ProjectRepoGetByName(name)
        IN  /\ projects[id].name = name =>
                  /\ result'.err = NoError
                  /\ \E d \in UowDescriptions :
                        projects' = [projects EXCEPT ![id].description = d]
                  /\ tasks' = tasks
            /\ holders \ {id} # {} =>
                  /\ result'.err = DuplicateProjectNameError
                  /\ projects' = projects
                  /\ tasks' = tasks
            /\ holders = {} =>
                  /\ result'.err = NoError
                  /\ projects'[id].name = name
                  /\ DOMAIN projects' = DOMAIN projects

\* C18: update_project checks the name only when it differs from the stored
\* one: the own name is accepted, another project's name is refused, and an
\* unused name is accepted also at the project limit (C18_Step).
C18_UpdateChecksNameOnlyOnChange == [][C18_Step]_vars

\* C18 witness: with MAX_PROJECTS projects stored, a project has just been
\* renamed to a name no project had.
C18_Witness ==
    /\ Returned("update_project")
    /\ Count(DOMAIN projects) = MAX_PROJECTS
    /\ result.name = SpareName
    /\ projects[result.id].name = SpareName
    /\ projects[result.id].description = Some("d")

\* C19, the steps: a change_task_status call that returns leaves the addressed
\* task's id, title, description, deadline, created_at and project_id, every
\* other task, every project and every project's task count as they were, and
\* a project that had reached the task limit before the call has reached it
\* after the call.
C19_Step ==
    (result'.op = "change_task_status" /\ result'.err = NoError) =>
        LET id == result'.id
        IN  /\ DOMAIN tasks' = DOMAIN tasks
            /\ \A f \in {"title", "description", "deadline", "created_at",
                          "project_id"} : tasks'[id][f] = tasks[id][f]
            /\ \A t \in DOMAIN tasks \ {id} : tasks'[t] = tasks[t]
            /\ projects' = projects
            /\ \A p \in DOMAIN projects :
                  /\ Count(TaskRepoGetAllForProject(p)') =
                        Count(TaskRepoGetAllForProject(p))
                  /\ add_task_to_project_error(p)' = add_task_to_project_error(p)

\* C19: change_task_status changes only the status and closed_at of the
\* addressed task, so a status change, to DONE included, frees no task capacity
\* (C19_Step).
C19_StatusChangeFrame == [][C19_Step]_vars

\* C19 witness: add_task_to_project has just been refused with the task limit
\* error on a project one of whose MAX_TASKS_PER_PROJECT tasks is DONE.
C19_Witness ==
    /\ Raised("add_task_to_project", TaskLimitExceededError)
    /\ \E t \in TaskRepoGetAllForProject(result.pid) : tasks[t].status = DONE
    /\ Count(TaskRepoGetAllForProject(result.pid)) = MAX_TASKS_PER_PROJECT

\* C20, the steps: a task that leaves the table belonged to a project that
\* leaves it in the same step; a project stored before and after a step holds
\* at least as many tasks after as before, and if it held
\* MAX_TASKS_PER_PROJECT it still does; add_task_to_project on a project that
\* holds MAX_TASKS_PER_PROJECT raises the task limit error.
C20_Step ==
    /\ \A t \in DOMAIN tasks \ DOMAIN tasks' :
          tasks[t].project_id \notin DOMAIN projects'
    /\ \A p \in DOMAIN projects \cap DOMAIN projects' :
          /\ Count(TaskRepoGetAllForProject(p)') >=
                Count(TaskRepoGetAllForProject(p))
          /\ TaskLimitReached(p) => TaskLimitReached(p)'
    /\ ( /\ result'.op = "add_task_to_project"
         /\ result'.pid \in DOMAIN projects
         /\ TaskLimitReached(result'.pid) ) =>
          result'.err = TaskLimitExceededError

\* C20: no call removes a single task, so a stored project's task count never
\* decreases and a project that holds MAX_TASKS_PER_PROJECT tasks refuses every
\* later add_task_to_project until it is deleted (C20_Step).
C20_FullProjectStaysFull == [][C20_Step]_vars

\* C20 witness: a project that holds MAX_TASKS_PER_PROJECT tasks has just
\* refused a task after the other project, with its task, was deleted.
C20_Witness ==
    /\ Raised("add_task_to_project", TaskLimitExceededError)
    /\ TaskLimitReached(result.pid)
    /\ Count(DOMAIN projects) < nextProjectId - 1
    /\ Count(DOMAIN tasks) < nextTaskId - 1

\* C21, the states: no stored closed_at is later than the clock, and a task that
\* change_task_status has just moved to DONE from another status has the time
\* of that call as its closed_at.
C21_State ==
    /\ \A t \in DOMAIN tasks :
          tasks[t].closed_at # None => tasks[t].closed_at[1] <= now
    /\ ( /\ Returned("change_task_status")
         /\ result.st = DONE
         /\ result.before[1].status # DONE ) =>
          tasks[result.id].closed_at = Some(result.at)

\* C21, the steps: closed_at changes only in a change_task_status call that
\* returns, and only on the addressed task: a move to DONE from another status
\* stores the time of the call whatever was stored at an earlier closing, and a
\* move to TODO or DOING leaves no closed_at behind, in the row or in the loaded
\* task of the next call.
C21_Step ==
    /\ \A t \in DOMAIN tasks \cap DOMAIN tasks' :
          tasks'[t].closed_at # tasks[t].closed_at =>
              /\ result'.op = "change_task_status"
              /\ result'.err = NoError
              /\ result'.id = t
              /\ result'.st = DONE <=> tasks[t].status # DONE
    /\ (result'.op = "change_task_status" /\ result'.err = NoError) =>
          LET id == result'.id
          IN  /\ (tasks[id].status # DONE /\ result'.st = DONE) =>
                    /\ tasks[id].closed_at = None
                    /\ tasks'[id].closed_at = Some(now)
              /\ result'.st # DONE => tasks'[id].closed_at = None

\* C21: closed_at of a DONE task is the time of the latest move to DONE from
\* another status (C21_State); reopening discards the earlier closed_at, and no
\* later call brings it back (C21_Step).
C21_ClosedAtIsLatestClosing == [] C21_State /\ [][C21_Step]_vars

\* C21 witness: a task that was reopened to DOING, which this caller does only
\* to a DONE task and later than its closed_at, has just been closed again, and
\* its closed_at is the time of this call.
C21_Witness ==
    /\ Returned("change_task_status")
    /\ result.st = DONE
    /\ result.before[1].status = DOING
    /\ result.before[1].closed_at = None
    /\ tasks[result.id].closed_at = Some(result.at)
    /\ result.at > tasks[result.id].created_at

====
